---- MODULE Spec2Model ----
(***************************************************************************)
(* Model of stephenvegagarcia/Message-entangle.                            *)
(*                                                                         *)
(*  - Code1.py: QTeleportationManager (per-bit teleportation circuits),    *)
(*    HelloFriendEntropy (grounding state machine, duplex socket server    *)
(*    with an HMAC-authenticated command stream).                          *)
(*  - Code3.py: the "horizon" variant of the grounding state machine.      *)
(*                                                                         *)
(* The specifications share the variables:                                 *)
(*    TeleportSpec  a direct call of teleport_bytes                        *)
(*    MachineSpec   cycle_protocol / update of both variants               *)
(*    CodecSpec     one connection, every kind of received chunk           *)
(*    LogSpec       one connection, the message log and the HUD loop       *)
(*    Spec          the socket server of Code1 with its threads            *)
(*    FairSpec      Spec with the scheduling of its threads                *)
(*    ScenarioSpec  MachineSpec started with the state at the target       *)
(*    BeatSpec      one connection with the heartbeat sender               *)
(*    PlainSpec     one connection receiving unframed text                 *)
(*    TripSpec      one connection receiving framed payloads               *)
(*    RecoverSpec   one connection receiving rejected and authentic frames *)
(*    AppSpec       the main loop beside the server of one connection      *)
(***************************************************************************)
EXTENDS Integers, Sequences, FiniteSets, TLC

\* ---------------------------------------------------------------- bounds
\* connections the peer side opens during one run
MaxConn == 2
\* chunks of data the peer side sends during one run of Spec, BeatSpec,
\* PlainSpec or TripSpec (all connections)
MaxRecv == 1
\* chunks of data the peer sends during one run of CodecSpec or RecoverSpec
MaxCodecRecv == 2
\* chunks of data the peer sends during one run of LogSpec
MaxLogRecv == 7
\* heartbeat lines counted per connection
MaxBeats == 1
\* ticks of a scan the main loop makes during one run of AppSpec
MaxAppTicks == 5

\* ------------------------------------------------------ program constants
\* fidelity is published with four decimals: values are held in 1/Scale
Scale == 10000
\* "Keep only last 8 messages"
LogKeep == 8
\* scan bound of Code1.update and of Code3.update
ScanBound1 == 100
ScanBound3 == 120

VARIABLES
    \* --- grounding state machine (HelloFriendEntropy.__init__) ---
    variant,          \* which file's HelloFriendEntropy runs: "Code1" | "Code3"
    protocol,
    status_msg,
    access_granted,
    is_scanning,
    scan_timer,
    entropy_control,  \* in 1/Scale
    grounding_level,
    overlap,          \* <target|current_state|target>, in 1/Scale
    fidelity,         \* in 1/Scale
    clearance_calls,  \* calls of check_clearance since the last accepted trigger
    \* --- application / server ---
    running,          \* self.running
    backend,          \* self.teleporter.backend: "None" | "aer_simulator"
    msg_log,          \* self.msg_log
    srv,              \* the server thread (_run_server): pc and current conn
    sock,             \* per connection: both ends of the socket
    thr,              \* per thread running _listen_for_messages / teleport_bytes
    recv_budget,      \* chunks the peer side may still send
    main_pc,          \* the main loop: "loop" | "draw_hud" (inside the log loop)
    last_result,      \* the dict teleport_bit last returned to the direct caller
    last_call         \* the state machine's entry point last called

smvars == <<variant, protocol, status_msg, access_granted, is_scanning, scan_timer,
            entropy_control, grounding_level, overlap, fidelity, clearance_calls>>
srvvars == <<running, backend, msg_log, srv, sock, thr, recv_budget, main_pc, last_result>>
vars == <<smvars, srvvars, last_call>>

\* ------------------------------------------------------------- utilities
Min(a, b) == IF a < b THEN a ELSE b

RECURSIVE Pow2(_)
Pow2(k) == IF k = 0 THEN 1 ELSE 2 * Pow2(k - 1)

\* floor of the square root of x*Scale, for x in 0..Scale: sqrt of a value held
\* in 1/Scale, again in 1/Scale
\* (the r with r*r <= x*Scale < (r+1)*(r+1), found by bisection of 0..Scale)
RECURSIVE SqrtBetween(_, _, _)
SqrtBetween(n, lo, hi) ==
    IF lo = hi THEN lo
    ELSE LET mid == (lo + hi + 1) \div 2
         IN IF mid * mid <= n THEN SqrtBetween(n, mid, hi) ELSE SqrtBetween(n, lo, mid - 1)
ISqrt(x) == SqrtBetween(x * Scale, 0, Scale)

\* ------------------------------------------------- teleportation circuits
\* A register of three qubits is its vector of amplitudes over the basis
\* states 0..7 (qubit k is bit k of the index).  The circuits use X, H, CX
\* and Z only, so amplitudes are integers up to the common factor 1/sqrt(2)
\* of each H, which does not change which outcomes are possible.
Basis == 0..7
Bit(s, k) == (s \div Pow2(k)) % 2
Flip(s, k) == IF Bit(s, k) = 1 THEN s - Pow2(k) ELSE s + Pow2(k)
Ket000 == [s \in Basis |-> IF s = 0 THEN 1 ELSE 0]
GateX(a, k) == [s \in Basis |-> a[Flip(s, k)]]
GateH(a, k) == [s \in Basis |-> IF Bit(s, k) = 0 THEN a[s] + a[Flip(s, k)]
                                                   ELSE a[Flip(s, k)] - a[s]]
GateCX(a, c, t) == [s \in Basis |-> IF Bit(s, c) = 1 THEN a[Flip(s, t)] ELSE a[s]]
GateZ(a, k) == [s \in Basis |-> IF Bit(s, k) = 1 THEN 0 - a[s] ELSE a[s]]

RECURSIVE SumSq(_, _)
SumSq(a, S) == IF S = {} THEN 0
               ELSE LET s == CHOOSE x \in S : TRUE
                    IN a[s] * a[s] + SumSq(a, S \ {s})

\* _build_teleport_circuit_for_bit: the register before the two measurements
BuildTeleportCircuit(bit_value) ==
    LET a0 == IF bit_value = 1 THEN GateX(Ket000, 0) ELSE Ket000
        a1 == GateH(a0, 1)
        a2 == GateCX(a1, 1, 2)
        a3 == GateCX(a2, 0, 1)
        a4 == GateH(a3, 0)
    IN a4

\* the keys "c1c0" one shot of qc1 can return: measure q0 -> c0, q1 -> c1
Phase1Keys(bit_value) ==
    LET a == BuildTeleportCircuit(bit_value)
    IN {<<c1, c0>> \in {0, 1} \X {0, 1} :
           SumSq(a, {s \in Basis : Bit(s, 0) = c0 /\ Bit(s, 1) = c1}) > 0}

\* m1, m0 = int(measured_key[-2]), int(measured_key[-1])
AliceM1(key) == key[Len(key) - 1]
AliceM0(key) == key[Len(key)]

\* the second circuit of teleport_bit: the register before measuring q2
BuildCorrectionCircuit(bit, alice_m0, alice_m1) ==
    LET a0 == IF bit = 1 THEN GateX(Ket000, 0) ELSE Ket000
        a1 == GateH(a0, 1)
        a2 == GateCX(a1, 1, 2)
        a3 == IF alice_m1 = 1 THEN GateX(a2, 2) ELSE a2
        a4 == IF alice_m0 = 1 THEN GateZ(a3, 2) ELSE a3
    IN a4

\* the keys one shot of qc2 can return: measure q2 -> c2[0]
Phase2Keys(bit, alice_m0, alice_m1) ==
    LET a == BuildCorrectionCircuit(bit, alice_m0, alice_m1)
    IN {<<v>> : v \in {v \in {0, 1} : SumSq(a, {s \in Basis : Bit(s, 2) = v}) > 0}}

NoRes == [input_bit |-> -1, alice_m0 |-> -1, alice_m1 |-> -1,
          teleported_bit |-> -1, success |-> FALSE]

\* the dict teleport_bit returns, given the keys the two jobs returned
TeleportBitResult(bit, key1, key2) ==
    LET teleported_bit == key2[Len(key2)]
    IN [input_bit |-> bit, alice_m0 |-> AliceM0(key1), alice_m1 |-> AliceM1(key1),
        teleported_bit |-> teleported_bit, success |-> (teleported_bit = bit)]

\* teleport_bytes: bit = (byte >> (7 - i)) & 0x1 of the k-th loop turn (k = 0..)
PayloadBitLsbFirst(raw, k) == (raw[(k \div 8) + 1] \div Pow2(k % 8)) % 2
PayloadBit(raw, k) == (raw[(k \div 8) + 1] \div Pow2(7 - (k % 8))) % 2

\* ------------------------------------------------ grounding state machine
Variants == {"Code1", "Code3"}

\* self.protocol after __init__
InitLabel(v) == IF v = "Code1" THEN "INIT: 0,0" ELSE "INIT: 0"
\* the label under which update mixes the state toward the target
ConvergeLabel(v) == IF v = "Code1" THEN "GROUNDING: 0,1 -- 1,0" ELSE "HORIZON: 2^{80}"
\* the label the else branch of cycle_protocol writes
ElseLabel(v) == IF v = "Code1" THEN "INIT: 0,1" ELSE "INIT: 0"
InitStatus(v) == IF v = "Code1" THEN "SYSTEM: UNGROUNDED" ELSE "SYSTEM: IDLE"
ConvergeStatus(v) ==
    IF v = "Code1" THEN "CALCULATING FIDELITY..." ELSE "CALCULATING PROBABILITY SPACE..."
ElseStatus(v) == IF v = "Code1" THEN "SYSTEM: UNGROUNDED" ELSE "SYSTEM: IDLE"

ScanBound(v) == IF v = "Code1" THEN ScanBound1 ELSE ScanBound3

\* qt.tensor(qt.rand_ket(2), qt.rand_ket(2)): the overlap of a product state
\* with the singlet target lies in [0, 1/2]
RandOverlapsAnyState == {0, Scale \div 2, Scale}
RandOverlaps == {0, Scale \div 4, Scale \div 2}

\* 0.1, the entropy control written by __init__, cycle_protocol and a denial
EntropyLow == Scale \div 10

\* (1 - mix) * dm_curr + mix * dm_targ with mix = min(1.0, t / bound), as the
\* overlap of the result with the target (the target's own overlap is 1)
MixTowardSlow(ov, t, bound) ==
    LET num == Min(t, bound)
    IN ((2 * bound - num) * ov + num * Scale) \div (2 * bound)
MixToward(ov, t, bound) ==
    LET num == Min(t, bound)
    IN ((bound - num) * ov + num * Scale) \div bound

\* qt.fidelity(current_state, target_state) for a pure target
Fidelity(ov) == ISqrt(ov)

\* if self.is_scanning: return
CycleBlockedNever == FALSE
CycleBlocked == is_scanning

\* if self.protocol == "INIT: 0,0" / "INIT: 0"
CycleFromInit == protocol = InitLabel(variant)

\* if self.scan_timer > 100 / > 120
ScanDoneEarly(t, bound) == t >= bound
ScanDone(t, bound) == t > bound

\* if self.fidelity > 0.95
Cleared(fid) == fid * 100 > 95 * Scale

\* Code3.check_clearance: the fields it writes
CheckClearance3GrantLevelOne(fid) ==
    IF Cleared(fid)
    THEN [grounding_level |-> 1, access_granted |-> TRUE, entropy_control |-> Scale,
          status_msg |-> "HORIZON REACHED. COLLAPSED."]
    ELSE [grounding_level |-> 0, access_granted |-> FALSE, entropy_control |-> EntropyLow,
          status_msg |-> "COMPUTATIONAL FAILURE"]
CheckClearance3(fid) ==
    IF Cleared(fid)
    THEN [grounding_level |-> 2, access_granted |-> TRUE, entropy_control |-> Scale,
          status_msg |-> "HORIZON REACHED. COLLAPSED."]
    ELSE [grounding_level |-> 0, access_granted |-> FALSE, entropy_control |-> EntropyLow,
          status_msg |-> "COMPUTATIONAL FAILURE"]

\* Code1.check_clearance: its body is not in Code1.py; Granted sets the status
\* and locks the signal, Denied resets the status and reverts the signal
CheckClearance1(fid) ==
    IF Cleared(fid)
    THEN [grounding_level |-> 2, access_granted |-> TRUE, entropy_control |-> Scale,
          status_msg |-> "SYSTEM: GROUNDED"]
    ELSE [grounding_level |-> 0, access_granted |-> FALSE, entropy_control |-> EntropyLow,
          status_msg |-> "SYSTEM: UNGROUNDED"]

CheckClearance(v, fid) == IF v = "Code1" THEN CheckClearance1(fid) ELSE CheckClearance3(fid)

\* HelloFriendEntropy.__init__: the state machine's fields
MachineFields(v) ==
    /\ variant = v
    /\ protocol = InitLabel(v)
    /\ status_msg = InitStatus(v)
    /\ access_granted = FALSE
    /\ is_scanning = FALSE
    /\ scan_timer = 0
    /\ entropy_control = EntropyLow
    /\ grounding_level = 0
    /\ overlap \in RandOverlaps
    /\ fidelity = 0
    /\ clearance_calls = 0

\* cycle_protocol, called by the main loop on a SPACE key / a click of the button
CycleProtocol ==
    /\ running
    /\ last_call' = "cycle_protocol"
    /\ UNCHANGED <<variant, srvvars>>
    /\ IF CycleBlocked
       THEN UNCHANGED <<protocol, status_msg, access_granted, is_scanning, scan_timer,
                        entropy_control, grounding_level, overlap, fidelity,
                        clearance_calls>>
       ELSE /\ IF CycleFromInit
               THEN /\ protocol' = ConvergeLabel(variant)
                    /\ status_msg' = ConvergeStatus(variant)
                    /\ overlap' = overlap
               ELSE /\ protocol' = ElseLabel(variant)
                    /\ status_msg' = ElseStatus(variant)
                    /\ overlap' \in RandOverlaps
            /\ is_scanning' = TRUE
            /\ access_granted' = FALSE
            /\ scan_timer' = 0
            /\ entropy_control' = EntropyLow
            /\ grounding_level' = 0
            /\ fidelity' = 0
            /\ clearance_calls' = 0

\* update when "if self.is_scanning:" fails: nothing of the machine is written
TickIdleNever == FALSE
TickIdle == ~is_scanning

\* update, called once per frame by the main loop
Update ==
    /\ running
    /\ last_call' = "update"
    /\ UNCHANGED <<variant, protocol, srvvars>>
    /\ IF TickIdle
       THEN UNCHANGED <<status_msg, access_granted, is_scanning, scan_timer,
                        entropy_control, grounding_level, overlap, fidelity,
                        clearance_calls>>
       ELSE \E sample \in RandOverlaps :
            LET t == scan_timer + 1
                converge == protocol = ConvergeLabel(variant)
                mixes == converge /\ t % 5 = 0
                resamples == ~converge /\ variant = "Code1" /\ t % 10 = 0
                ov == IF mixes THEN MixToward(overlap, t, ScanBound(variant))
                      ELSE IF resamples THEN sample ELSE overlap
                fid == IF mixes \/ resamples THEN Fidelity(ov) ELSE fidelity
                ent == IF mixes THEN fid ELSE entropy_control
                done == ScanDone(t, ScanBound(variant))
                clr == CheckClearance(variant, fid)
            IN /\ scan_timer' = t
               /\ overlap' = ov
               /\ fidelity' = fid
               /\ is_scanning' = ~done
               /\ IF done
                  THEN /\ grounding_level' = clr.grounding_level
                       /\ access_granted' = clr.access_granted
                       /\ entropy_control' = clr.entropy_control
                       /\ status_msg' = clr.status_msg
                       /\ clearance_calls' = clearance_calls + 1
                  ELSE /\ entropy_control' = ent
                       /\ UNCHANGED <<grounding_level, access_granted, status_msg,
                                      clearance_calls>>


\* ------------------------------------------------ authenticated codec
\* base64 text is a sequence of characters, each held as its position in the
\* base64 alphabet (0..63), the pad character "=" as B64Pad, any character
\* outside the alphabet as B64Junk.
B64Pad == 64
B64Junk == 65

\* base64.b64encode(raw): three bytes give four characters; one or two
\* bytes left over give two or three characters and the padding
RECURSIVE B64Encode(_)
B64Encode(raw) ==
    IF raw = <<>> THEN <<>>
    ELSE IF Len(raw) = 1
         THEN <<raw[1] \div 4, (raw[1] % 4) * 16, B64Pad, B64Pad>>
    ELSE IF Len(raw) = 2
         THEN <<raw[1] \div 4, (raw[1] % 4) * 16 + raw[2] \div 16, (raw[2] % 16) * 4,
                B64Pad>>
    ELSE <<raw[1] \div 4, (raw[1] % 4) * 16 + raw[2] \div 16,
           (raw[2] % 16) * 4 + raw[3] \div 64, raw[3] % 64>>
         \o B64Encode(SubSeq(raw, 4, Len(raw)))

\* base64.b64decode(text) with validate=False (binascii.a2b_base64): the
\* characters are read one by one into quads; a character outside the
\* alphabet is skipped; padding that completes a quad ends the parse;
\* characters left in an open quad at the end raise binascii.Error
RECURSIVE A2bBase64(_, _, _, _, _)
A2bBase64(chars, quad_pos, leftchar, pads, out) ==
    IF chars = <<>> THEN [ok |-> quad_pos = 0, bytes |-> out]
    ELSE LET ch == Head(chars)
             rest == Tail(chars)
         IN IF ch = B64Pad
            THEN IF quad_pos >= 2 /\ quad_pos + pads + 1 >= 4
                 THEN [ok |-> TRUE, bytes |-> out]
                 ELSE A2bBase64(rest, quad_pos, leftchar,
                                IF quad_pos >= 2 THEN pads + 1 ELSE pads, out)
            ELSE IF ch = B64Junk
            THEN A2bBase64(rest, quad_pos, leftchar, pads, out)
            ELSE CASE quad_pos = 0 -> A2bBase64(rest, 1, ch, 0, out)
                   [] quad_pos = 1 ->
                        A2bBase64(rest, 2, ch % 16, 0, Append(out, leftchar * 4 + ch \div 16))
                   [] quad_pos = 2 ->
                        A2bBase64(rest, 3, ch % 4, 0, Append(out, leftchar * 16 + ch \div 4))
                   [] OTHER ->
                        A2bBase64(rest, 0, 0, 0, Append(out, leftchar * 64 + ch))

\* hex text is a sequence of hex digits 0..15.
\* mac.hex(): two digits per byte
RECURSIVE HexEncode(_)
HexEncode(bytes) ==
    IF bytes = <<>> THEN <<>>
    ELSE <<bytes[1] \div 16, bytes[1] % 16>> \o HexEncode(Tail(bytes))

\* bytes.fromhex(digits): a byte per pair of digits; an odd digit raises
RECURSIVE FromHex(_)
FromHex(digits) ==
    IF digits = <<>> THEN [ok |-> TRUE, bytes |-> <<>>]
    ELSE IF Len(digits) = 1 THEN [ok |-> FALSE, bytes |-> <<>>]
    ELSE LET rest == FromHex(SubSeq(digits, 3, Len(digits)))
         IN [ok |-> rest.ok, bytes |-> <<digits[1] * 16 + digits[2]>> \o rest.bytes]

\* HMAC-SHA256 is not computed: the digest of (key, raw) is a stand-in byte
\* string that is different for different keys and for different payloads
Secret == "CLASSICAL_AUTH_SECRET"
KeyByte(key) == IF key = Secret THEN 83 ELSE 79
Hmac(key, raw) == <<KeyByte(key)>> \o raw
NoMac == <<>>

\* Received text is a sequence of tokens: the two literals of the framing, a
\* base64 text (its characters), a hex text (its digits), or other text.
TokMessage == [t |-> "MESSAGE:", p |-> <<>>]
TokSep == [t |-> "|HMAC:", p |-> <<>>]
\* other text, which neither base64.b64decode nor bytes.fromhex accepts
\* (such as "abc": wrong padding for the one, odd length for the other)
TokText == [t |-> "text", p |-> <<>>]
\* the text base64.b64encode(raw).decode()
B64Text(raw) == [t |-> "b64", p |-> B64Encode(raw)]
\* the text mac.hex()
HexText(mac) == [t |-> "hex", p |-> HexEncode(mac)]

\* the frame MESSAGE:<base64(raw)>|HMAC:<hex(mac)>
Frame(raw, mac) == <<TokMessage, B64Text(raw), TokSep, HexText(mac)>>

\* "|HMAC:" in decoded
HasSep(toks) == \E i \in 1..Len(toks) : toks[i] = TokSep
FirstSep(toks) == CHOOSE i \in 1..Len(toks) :
                      toks[i] = TokSep /\ \A j \in 1..(i - 1) : toks[j] # TokSep
\* parts = decoded.split("|HMAC:", 1)
PayloadPart(toks) == SubSeq(toks, 1, FirstSep(toks) - 1)
HmacPart(toks) == SubSeq(toks, FirstSep(toks) + 1, Len(toks))
\* payload_part.startswith("MESSAGE:")
StartsWithMessageAnywhere(part) == \E i \in 1..Len(part) : part[i] = TokMessage
StartsWithMessage(part) == Len(part) >= 1 /\ part[1] = TokMessage
\* payload_part.split("MESSAGE:", 1)[1]
AfterMessage(part) == Tail(part)

\* base64.b64decode(b64payload): the empty text decodes to no bytes, one
\* base64 text to its bytes, anything else raises
B64Ok(text) ==
    text = <<>> \/ (Len(text) = 1 /\ text[1].t = "b64" /\ A2bBase64(text[1].p, 0, 0, 0, <<>>).ok)
B64DecodeWholeGroups(text) ==
    IF text = <<>> THEN <<>>
    ELSE LET bytes == A2bBase64(text[1].p, 0, 0, 0, <<>>).bytes
         IN SubSeq(bytes, 1, 3 * (Len(bytes) \div 3))
B64Decode(text) == IF text = <<>> THEN <<>> ELSE A2bBase64(text[1].p, 0, 0, 0, <<>>).bytes
\* bytes.fromhex(hmac_part.strip()): the empty text gives the empty digest
HexOkAlways(text) == TRUE
HexOk(text) == text = <<>> \/ (Len(text) = 1 /\ text[1].t = "hex" /\ FromHex(text[1].p).ok)
HexDecode(text) == IF text = <<>> THEN NoMac ELSE FromHex(text[1].p).bytes

\* hmac.compare_digest(mac_expected, mac_received), with
\* mac_expected = hmac.new(CLASSICAL_AUTH_SECRET, raw, hashlib.sha256).digest()
MacMatchesAny(raw, mac_received) == mac_received # <<>> /\ Tail(mac_received) = raw
MacMatches(raw, mac_received) == Hmac(Secret, raw) = mac_received

\* how _listen_for_messages classifies one chunk of received data
Classify(frame) ==
    IF ~(frame.utf8 /\ HasSep(frame.toks)) THEN "Plain"
    ELSE IF ~StartsWithMessage(PayloadPart(frame.toks)) THEN "Malformed"
    ELSE IF ~B64Ok(AfterMessage(PayloadPart(frame.toks))) THEN "BadPayload"
    ELSE IF ~HexOk(HmacPart(frame.toks)) THEN "BadPayload"
    ELSE IF MacMatches(B64Decode(AfterMessage(PayloadPart(frame.toks))),
                       HexDecode(HmacPart(frame.toks)))
         THEN "Authenticated"
    ELSE "AuthFailed"

\* raw, the payload handed to teleport_bytes
RawOf(frame) == B64Decode(AfterMessage(PayloadPart(frame.toks)))

\* payloads the peer side frames; bytes are 0..255
Payloads == {<<>>, <<1>>}

NoFrame == [utf8 |-> TRUE, toks |-> <<>>]
\* the chunks of data one recv can return
Frames ==
    {[utf8 |-> TRUE, toks |-> t] : t \in
        {<<TokText>>,
         <<TokMessage, B64Text(<<1>>)>>,
         <<TokSep, HexText(Hmac(Secret, <<1>>))>>,
         <<B64Text(<<1>>), TokSep, HexText(Hmac(Secret, <<1>>))>>,
         <<TokText, TokMessage, B64Text(<<1>>), TokSep, HexText(Hmac(Secret, <<1>>))>>,
         <<TokMessage, TokText, TokSep, HexText(Hmac(Secret, <<1>>))>>,
         <<TokMessage, B64Text(<<1>>), TokSep, TokText>>,
         <<TokMessage, TokText, TokSep, TokText>>,
         <<TokMessage, B64Text(<<1>>), TokSep>>,
         Frame(<<1>>, Hmac("other key", <<1>>)),
         Frame(<<1>>, Hmac(Secret, <<>>)),
         Frame(<<1>>, Hmac(Secret, <<1>>)) \o Frame(<<1>>, Hmac(Secret, <<1>>))}
        \cup {Frame(raw, Hmac(Secret, raw)) : raw \in Payloads}}
    \cup {[utf8 |-> FALSE, toks |-> <<TokText>>]}

\* the lines and tokens sent on a connection
NoReply == [tok |-> "", succ |-> 0, total |-> 0, val |-> 0]
Token(name) == [tok |-> name, succ |-> 0, total |-> 0, val |-> 0]
\* f"TELEPORT_RESULT: success={succ}/{total} backend={...}"
ResultLine(succ, total) == [tok |-> "TELEPORT_RESULT", succ |-> succ, total |-> total, val |-> 0]
\* f"FIDELITY:{self.fidelity:.4f}\n"
FidelityLineAtStart(fid) == [tok |-> "FIDELITY", succ |-> 0, total |-> 0, val |-> 0]
FidelityLine(fid) == [tok |-> "FIDELITY", succ |-> 0, total |-> 0, val |-> fid]


\* ------------------------------------------------ threads and sockets
Conns == 1..MaxConn
\* thread c (c in Conns) runs _listen_for_messages(conn c); thread 0 is a
\* direct caller of teleporter.teleport_bytes
Threads == 0..MaxConn

\* the locals of one thread
IdleThread == [pc |-> "off", frame |-> NoFrame, raw |-> <<>>, idx |-> 0, succ |-> 0,
               inputs |-> <<>>, failed |-> FALSE, invoked |-> FALSE, reply |-> NoReply]

\* a connection: the server's socket object, the peer's end, and what the
\* peer has been sent (the receiver's replies in order, the sender's lines
\* counted, and whether one of them was sent while the receiver was busy
\* with a chunk)
NoSock == [state |-> "none", peer |-> "none", replies |-> <<>>, beats |-> 0,
           busy_beat |-> FALSE]

\* the log lines, by kind
LogReady == "SYSTEM READY..."
LogWaiting == "WAITING FOR UPLINK..."
LogBusy == "Server port busy; socket server not started."
LogUp == "UPLINK ESTABLISHED"
LogLost == "UPLINK LOST."
LogRemote == "REMOTE"
LogAuthOk == "AUTH OK. Teleporting payload"
LogTeleportError == "Teleport error"
LogResult == "TELEPORT_RESULT"
LogHmacFailed == "HMAC verification failed"
LogDecodeFailed == "Payload decode failed"
LogMalformed == "MALFORMED MESSAGE"

\* conn.sendall(...) can raise once the socket object is closed or the peer
\* has closed; it can succeed while the socket object is open
SendMayFail(c) == sock[c].state # "open" \/ sock[c].peer = "closed"
SendWaitsForReceiver(c) == sock[c].state = "open" /\ thr[c].pc \in {"off", "head", "recv", "ended"}
SendMaySucceed(c) == sock[c].state = "open"
SendOutcomes(c) == {ok \in BOOLEAN : IF ok THEN SendMaySucceed(c) ELSE SendMayFail(c)}

\* the socket after a reply was passed to sendall
Delivered(c, ok, line) ==
    IF ok THEN [sock EXCEPT ![c].replies = Append(@, line)] ELSE sock

\* HelloFriendEntropy.__init__ and QTeleportationManager._init_backend
ServerFields(budget) ==
    /\ running = TRUE
    /\ backend \in {"None", "aer_simulator"}
    /\ msg_log = <<LogReady, LogWaiting>>
    /\ srv = [pc |-> "bind", conn |-> 0, accepted |-> 0]
    /\ sock = [c \in Conns |-> NoSock]
    /\ thr = [t \in Threads |-> IdleThread]
    /\ recv_budget = budget
    /\ main_pc = "loop"
    /\ last_result = NoRes
    /\ last_call = "init"

\* ------------------------------------------------ teleport_bytes
\* the loop has turns left
MoreBits(t) == thr[t].idx < 8 * Len(thr[t].raw)

\* where the thread is after results.append(res): the loops go on to the
\* next bit whatever res says, and return after the last one
AfterBitStopOnMismatch(t, res) ==
    IF res.success /\ thr[t].idx + 1 < 8 * Len(thr[t].raw) THEN "tele" ELSE "respond"
AfterBit(t, res) == IF thr[t].idx + 1 < 8 * Len(thr[t].raw) THEN "tele" ELSE "respond"

\* one turn of the loop of teleport_bytes: res = self.teleport_bit(bit);
\* results.append(res).  teleport_bit raises when there is no backend or a
\* job fails; otherwise the two jobs return one key each.
TeleportBit(t) ==
    /\ thr[t].pc = "tele"
    /\ MoreBits(t)
    /\ UNCHANGED <<smvars, running, backend, msg_log, srv, sock, recv_budget, main_pc,
                   last_call>>
    /\ LET bit == PayloadBit(thr[t].raw, thr[t].idx)
       IN \/ /\ backend = "None"
             /\ thr' = [thr EXCEPT ![t].failed = TRUE, ![t].pc = "respond"]
             /\ UNCHANGED last_result
          \/ /\ backend # "None"
             /\ thr' = [thr EXCEPT ![t].failed = TRUE, ![t].pc = "respond"]
             /\ UNCHANGED last_result
          \/ /\ backend # "None"
             /\ \E key1 \in Phase1Keys(bit) :
                \E key2 \in Phase2Keys(bit, AliceM0(key1), AliceM1(key1)) :
                   LET res == TeleportBitResult(bit, key1, key2)
                   IN /\ last_result' = IF t = 0 THEN res ELSE last_result
                      /\ thr' = [thr EXCEPT
                            ![t].idx = @ + 1,
                            ![t].succ = IF res.success THEN @ + 1 ELSE @,
                            ![t].inputs = Append(@, res.input_bit),
                            ![t].pc = AfterBit(t, res)]

\* the locals of a thread entering teleport_bytes(raw)
EnterPipelineSkipBits(rec, frame, raw) ==
    [rec EXCEPT !.frame = frame, !.raw = raw, !.idx = 0, !.succ = 0, !.inputs = <<>>,
                !.failed = FALSE, !.invoked = TRUE, !.reply = NoReply, !.pc = "respond"]
EnterPipeline(rec, frame, raw) ==
    [rec EXCEPT !.frame = frame, !.raw = raw, !.idx = 0, !.succ = 0, !.inputs = <<>>,
                !.failed = FALSE, !.invoked = TRUE, !.reply = NoReply,
                !.pc = IF Len(raw) > 0 THEN "tele" ELSE "respond"]


\* ------------------------------------------------ _listen_for_messages
\* A receiver is at the head of its loop (pc "head") or inside
\* conn.recv(4096) (pc "recv"); recv has no timeout.
\* while self.running: ... fails at the loop head once the flag is cleared
ListenerExit(c) ==
    /\ thr[c].pc = "head"
    /\ ~running
    /\ thr' = [thr EXCEPT ![c].pc = "ended"]
    /\ UNCHANGED <<smvars, running, backend, msg_log, srv, sock, recv_budget, main_pc,
                   last_result, last_call>>

\* while self.running holds: data = conn.recv(4096) is called; on a socket
\* object that is already closed it raises at once (except: break)
EnterRecv(c) ==
    /\ thr[c].pc = "head"
    /\ running
    /\ thr' = [thr EXCEPT ![c].pc = IF sock[c].state = "open" THEN "recv" ELSE "ended"]
    /\ UNCHANGED <<smvars, running, backend, msg_log, srv, sock, recv_budget, main_pc,
                   last_result, last_call>>

\* the peer has shut down or closed: recv returns b'' or raises: break
RecvEnds(c) ==
    /\ thr[c].pc = "recv"
    /\ sock[c].peer # "open"
    /\ thr' = [thr EXCEPT ![c].pc = "ended"]
    /\ UNCHANGED <<smvars, running, backend, msg_log, srv, sock, recv_budget, main_pc,
                   last_result, last_call>>

\* the server thread closed the socket object (leaving "with conn") while
\* this thread was inside recv: whether the call then raises or stays
\* blocked depends on the platform, so this step may or may not be taken
RecvAborts(c) ==
    /\ thr[c].pc = "recv"
    /\ sock[c].state # "open"
    /\ sock[c].peer = "open"
    /\ thr' = [thr EXCEPT ![c].pc = "ended"]
    /\ UNCHANGED <<smvars, running, backend, msg_log, srv, sock, recv_budget, main_pc,
                   last_result, last_call>>

\* the fixed token and the log line of a chunk that is framed but not accepted
RejectTokenWithDetail(cls) == CASE cls = "Malformed" -> "MALFORMED"
                                [] cls = "BadPayload" -> LogDecodeFailed
                                [] OTHER -> "AUTH_FAILED"
RejectToken(cls) == CASE cls = "Malformed" -> "MALFORMED"
                      [] cls = "BadPayload" -> "BAD_PAYLOAD"
                      [] OTHER -> "AUTH_FAILED"
RejectLog(cls) == CASE cls = "Malformed" -> LogMalformed
                    [] cls = "BadPayload" -> LogDecodeFailed
                    [] OTHER -> LogHmacFailed

\* where the receiver is after the reply to a rejected chunk: no branch
\* breaks, the loop goes to its next turn
AfterRejectBreak == "ended"
AfterReject == "head"

\* data = conn.recv(4096) returns a chunk; the turn of the loop up to the
\* call of teleport_bytes (accepted), the reply (rejected), or the append
\* to the log (plain text)
RecvData(c, chunks) ==
    /\ thr[c].pc = "recv"
    /\ sock[c].state = "open"
    /\ sock[c].peer = "open"
    /\ recv_budget > 0
    /\ recv_budget' = recv_budget - 1
    /\ UNCHANGED <<smvars, running, backend, srv, main_pc, last_result, last_call>>
    /\ \E frame \in chunks :
         LET cls == Classify(frame)
         IN CASE cls = "Plain" ->
                   /\ msg_log' = Append(msg_log, LogRemote)
                   /\ thr' = [thr EXCEPT ![c].frame = frame, ![c].invoked = FALSE,
                                         ![c].reply = NoReply, ![c].pc = "evict"]
                   /\ UNCHANGED sock
              [] cls = "Authenticated" ->
                   /\ msg_log' = Append(msg_log, LogAuthOk)
                   /\ thr' = [thr EXCEPT ![c] = EnterPipeline(@, frame, RawOf(frame))]
                   /\ UNCHANGED sock
              [] OTHER ->
                   /\ msg_log' = Append(msg_log, RejectLog(cls))
                   /\ thr' = [thr EXCEPT ![c].frame = frame, ![c].invoked = FALSE,
                                         ![c].reply = Token(RejectToken(cls)),
                                         ![c].pc = AfterReject]
                   /\ \E ok \in SendOutcomes(c) :
                         sock' = Delivered(c, ok, Token(RejectToken(cls)))

\* after teleport_bytes returned or raised: the reply and the log lines
Respond(c) ==
    /\ c \in Conns
    /\ thr[c].pc = "respond"
    /\ UNCHANGED <<smvars, running, backend, srv, recv_budget, main_pc, last_result,
                   last_call>>
    /\ LET line == IF thr[c].failed THEN Token("TELEPORT_FAILED")
                   ELSE ResultLine(thr[c].succ, thr[c].idx)
       IN /\ msg_log' = Append(msg_log, IF thr[c].failed THEN LogTeleportError
                                                          ELSE LogResult)
          /\ thr' = [thr EXCEPT ![c].reply = line, ![c].pc = "head"]
          /\ \E ok \in SendOutcomes(c) : sock' = Delivered(c, ok, line)

\* if len(self.msg_log) > 8: self.msg_log.pop(0); then the FIDELITY reply
EvictAlways(log) == Tail(log)
Evict(log) == IF Len(log) > LogKeep THEN Tail(log) ELSE log

PlainReply(c) ==
    /\ thr[c].pc = "evict"
    /\ UNCHANGED <<smvars, running, backend, srv, recv_budget, main_pc, last_result,
                   last_call>>
    /\ msg_log' = Evict(msg_log)
    /\ thr' = [thr EXCEPT ![c].reply = FidelityLine(fidelity), ![c].pc = "head"]
    /\ \E ok \in SendOutcomes(c) : sock' = Delivered(c, ok, FidelityLine(fidelity))

\* ------------------------------------------------ _run_server
\* s.bind(...) succeeds, or raises OSError: log and return
BindFailureGoesOn ==
    /\ srv.pc = "bind"
    /\ UNCHANGED <<smvars, running, backend, sock, thr, recv_budget, main_pc, last_result,
                   last_call>>
    /\ \/ /\ srv' = [srv EXCEPT !.pc = "accept"]
          /\ UNCHANGED msg_log
       \/ /\ srv' = [srv EXCEPT !.pc = "accept"]
          /\ msg_log' = Append(msg_log, LogBusy)
Bind ==
    /\ srv.pc = "bind"
    /\ UNCHANGED <<smvars, running, backend, sock, thr, recv_budget, main_pc, last_result,
                   last_call>>
    /\ \/ /\ srv' = [srv EXCEPT !.pc = "accept"]
          /\ UNCHANGED msg_log
       \/ /\ srv' = [srv EXCEPT !.pc = "done"]
          /\ msg_log' = Append(msg_log, LogBusy)

\* while self.running fails at the head of the accept loop
ServerExit ==
    /\ srv.pc = "accept"
    /\ ~running
    /\ srv' = [srv EXCEPT !.pc = "done"]
    /\ UNCHANGED <<smvars, running, backend, msg_log, sock, thr, recv_budget, main_pc,
                   last_result, last_call>>

\* s.accept() times out after 1 s: continue
AcceptTimeout ==
    /\ srv.pc = "accept"
    /\ running
    /\ UNCHANGED vars

\* s.accept() returns a connection: log, start the listener thread, enter
\* the send loop
Accept(limit) ==
    /\ srv.pc = "accept"
    /\ running
    /\ srv.accepted < limit
    /\ LET c == srv.accepted + 1
       IN /\ srv' = [pc |-> "send", conn |-> c, accepted |-> c]
          /\ sock' = [sock EXCEPT ![c] = [NoSock EXCEPT !.state = "open", !.peer = "open"]]
          /\ thr' = [thr EXCEPT ![c].pc = "head"]
          /\ msg_log' = Append(msg_log, LogUp)
    /\ UNCHANGED <<smvars, running, backend, recv_budget, main_pc, last_result, last_call>>

\* one turn of the send loop: conn.sendall(FIDELITY line) returns
HeartbeatResetsFidelity ==
    /\ srv.pc = "send"
    /\ running
    /\ SendMaySucceed(srv.conn)
    /\ sock' = [sock EXCEPT ![srv.conn].beats = Min(@ + 1, MaxBeats)]
    /\ srv' = [srv EXCEPT !.pc = "sleep"]
    /\ fidelity' = 0
    /\ UNCHANGED <<variant, protocol, status_msg, access_granted, is_scanning, scan_timer,
                   entropy_control, grounding_level, overlap, clearance_calls>>
    /\ UNCHANGED <<running, backend, msg_log, thr, recv_budget, main_pc,
                   last_result, last_call>>
Heartbeat ==
    /\ srv.pc = "send"
    /\ running
    /\ SendMaySucceed(srv.conn)
    /\ sock' = [sock EXCEPT ![srv.conn].beats = Min(@ + 1, MaxBeats),
                            ![srv.conn].busy_beat =
                                @ \/ thr[srv.conn].pc \in {"tele", "respond", "evict"}]
    /\ srv' = [srv EXCEPT !.pc = "sleep"]
    /\ UNCHANGED <<smvars, running, backend, msg_log, thr, recv_budget, main_pc,
                   last_result, last_call>>

\* time.sleep(0.2) returns: back to the head of the send loop
HeartbeatSleepEnds ==
    /\ srv.pc = "sleep"
    /\ srv' = [srv EXCEPT !.pc = "send"]
    /\ UNCHANGED <<smvars, running, backend, msg_log, sock, thr, recv_budget, main_pc,
                   last_result, last_call>>

\* conn.sendall raises in the send loop: log, break, leave "with conn"
HeartbeatFails ==
    /\ srv.pc = "send"
    /\ running
    /\ SendMayFail(srv.conn)
    /\ msg_log' = Append(msg_log, LogLost)
    /\ sock' = [sock EXCEPT ![srv.conn].state = "closed"]
    /\ srv' = [srv EXCEPT !.pc = "accept", !.conn = 0]
    /\ UNCHANGED <<smvars, running, backend, thr, recv_budget, main_pc, last_result,
                   last_call>>

\* while self.running fails at the head of the send loop: leave "with conn"
SenderExit ==
    /\ srv.pc = "send"
    /\ ~running
    /\ sock' = [sock EXCEPT ![srv.conn].state = "closed"]
    /\ srv' = [srv EXCEPT !.pc = "accept", !.conn = 0]
    /\ UNCHANGED <<smvars, running, backend, msg_log, thr, recv_budget, main_pc,
                   last_result, last_call>>

\* ------------------------------------------------ the peer and the main loop
\* the peer shuts down its sending side (the receiver then reads b'')
PeerShutdown(c) ==
    /\ sock[c].peer = "open"
    /\ sock' = [sock EXCEPT ![c].peer = "shut_wr"]
    /\ UNCHANGED <<smvars, running, backend, msg_log, srv, thr, recv_budget, main_pc,
                   last_result, last_call>>

\* the peer closes its socket
PeerClose(c) ==
    /\ sock[c].peer \in {"open", "shut_wr"}
    /\ sock' = [sock EXCEPT ![c].peer = "closed"]
    /\ UNCHANGED <<smvars, running, backend, msg_log, srv, thr, recv_budget, main_pc,
                   last_result, last_call>>

\* handle_events: pygame.QUIT clears the flag and the main loop ends
Quit ==
    /\ running
    /\ main_pc = "loop"
    /\ running' = FALSE
    /\ UNCHANGED <<smvars, backend, msg_log, srv, sock, thr, recv_budget, main_pc,
                   last_result, last_call>>

\* draw_hud: the loop over self.msg_log begins / ends
DrawHudBegins ==
    /\ running
    /\ main_pc = "loop"
    /\ main_pc' = "draw_hud"
    /\ UNCHANGED <<smvars, running, backend, msg_log, srv, sock, thr, recv_budget,
                   last_result, last_call>>

DrawHudEnds ==
    /\ main_pc = "draw_hud"
    /\ main_pc' = "loop"
    /\ UNCHANGED <<smvars, running, backend, msg_log, srv, sock, thr, recv_budget,
                   last_result, last_call>>

\* ------------------------------------------------ specifications
\* the chunks the peer sends in the specification of the server's threads
LinkFrames ==
    {[utf8 |-> TRUE, toks |-> t] : t \in
        {<<TokText>>, Frame(<<1>>, Hmac(Secret, <<1>>)), Frame(<<>>, Hmac(Secret, <<>>))}}

\* the socket server of Code1 with its threads, the peer and the main loop
Init ==
    /\ MachineFields("Code1")
    /\ overlap = 0
    /\ ServerFields(MaxRecv)
    /\ backend = "aer_simulator"

Next ==
    \/ Bind
    \/ ServerExit
    \/ AcceptTimeout
    \/ Accept(MaxConn)
    \/ Heartbeat
    \/ HeartbeatSleepEnds
    \/ HeartbeatFails
    \/ SenderExit
    \/ \E c \in Conns : ListenerExit(c)
    \/ \E c \in Conns : EnterRecv(c)
    \/ \E c \in Conns : RecvEnds(c)
    \/ \E c \in Conns : RecvAborts(c)
    \/ \E c \in Conns : RecvData(c, LinkFrames)
    \/ \E c \in Conns : TeleportBit(c)
    \/ \E c \in Conns : Respond(c)
    \/ \E c \in Conns : PlainReply(c)
    \/ \E c \in Conns : PeerShutdown(c)
    \/ \E c \in Conns : PeerClose(c)
    \/ Quit

Spec == Init /\ [][Next]_vars

\* one connection, every kind of chunk: the codec and the pipeline (the
\* sender's successful sends change nothing the receiver reads and are
\* steps of Spec only; the send that fails ends the connection here too)
CodecNext ==
    \/ Bind
    \/ AcceptTimeout
    \/ Accept(1)
    \/ HeartbeatFails
    \/ EnterRecv(1)
    \/ RecvEnds(1)
    \/ RecvData(1, Frames)
    \/ TeleportBit(1)
    \/ Respond(1)
    \/ PlainReply(1)
    \/ PeerClose(1)

CodecInit ==
    /\ MachineFields("Code1")
    /\ overlap = 0
    /\ ServerFields(MaxCodecRecv)

CodecSpec == CodecInit /\ [][CodecNext]_vars

\* one connection with both of its roles: the sender under the scheduling
\* of its thread, the receiver and the peer free to stop anywhere
BeatNext ==
    \/ Bind
    \/ AcceptTimeout
    \/ Accept(1)
    \/ Heartbeat
    \/ HeartbeatSleepEnds
    \/ HeartbeatFails
    \/ EnterRecv(1)
    \/ RecvEnds(1)
    \/ RecvData(1, LinkFrames)
    \/ TeleportBit(1)
    \/ Respond(1)
    \/ PlainReply(1)
    \/ PeerShutdown(1)
    \/ PeerClose(1)

BeatSpec == Init /\ [][BeatNext]_vars /\ WF_vars(Heartbeat \/ HeartbeatSleepEnds)

\* unframed data on one connection while the main loop drives the state
\* machine: text, text that begins with "MESSAGE:", bytes that are not text
PlainFrames ==
    {[utf8 |-> TRUE, toks |-> <<TokText>>],
     [utf8 |-> TRUE, toks |-> <<TokMessage, B64Text(<<1>>)>>],
     [utf8 |-> FALSE, toks |-> <<TokText>>]}

PlainNext ==
    \/ CycleProtocol
    \/ Update
    \/ Bind
    \/ Accept(1)
    \/ EnterRecv(1)
    \/ RecvData(1, PlainFrames)
    \/ PlainReply(1)

PlainSpec == Init /\ [][PlainNext]_vars

\* The codec round trip: the peer frames payloads of every length modulo
\* three, with the code of the payload or with a different code of the
\* same form.
TripPayloads == {<<>>, <<255>>, <<104, 105>>, <<77, 97, 110>>}

\* the digest with the lowest bit of its i-th byte flipped
FlipBit(mac, i) == [mac EXCEPT ![i] = IF @ % 2 = 0 THEN @ + 1 ELSE @ - 1]

\* codes other than the code of raw: under another key, of another
\* payload, or with one bit flipped
OtherCodes(raw) ==
    {Hmac("other key", raw)}
    \cup {Hmac(Secret, other) : other \in TripPayloads \ {raw}}
    \cup {FlipBit(Hmac(Secret, raw), i) : i \in 1..Len(Hmac(Secret, raw))}

\* what the peer sends: the payload, the code, and the chunk framing them
Framing(raw, mac) == [raw |-> raw, mac |-> mac, frame |-> [utf8 |-> TRUE, toks |-> Frame(raw, mac)]]
TripAuthentic == {Framing(raw, Hmac(Secret, raw)) : raw \in TripPayloads}
TripForged == UNION {{Framing(raw, mac) : mac \in OtherCodes(raw)} : raw \in TripPayloads}
TripFrames == {sent.frame : sent \in TripAuthentic \cup TripForged}

TripNext ==
    \/ Bind
    \/ Accept(1)
    \/ EnterRecv(1)
    \/ RecvData(1, TripFrames)
    \/ TeleportBit(1)
    \/ Respond(1)

TripInit ==
    /\ MachineFields("Code1")
    /\ overlap = 0
    /\ ServerFields(MaxRecv)

TripSpec == TripInit /\ [][TripNext]_vars

\* Recovery after a rejected or failed request: one connection with its
\* sender running, the peer sending one chunk of each rejected kind or an
\* authentic frame.
RecoverFrames ==
    {[utf8 |-> TRUE, toks |-> t] : t \in
        {<<B64Text(<<1>>), TokSep, HexText(Hmac(Secret, <<1>>))>>,
         <<TokMessage, TokText, TokSep, HexText(Hmac(Secret, <<1>>))>>,
         Frame(<<1>>, Hmac("other key", <<1>>)),
         Frame(<<1>>, Hmac(Secret, <<1>>))}}

RecoverNext ==
    \/ Bind
    \/ Accept(1)
    \/ Heartbeat
    \/ HeartbeatSleepEnds
    \/ EnterRecv(1)
    \/ RecvData(1, RecoverFrames)
    \/ TeleportBit(1)
    \/ Respond(1)

RecoverSpec == CodecInit /\ [][RecoverNext]_vars

\* The whole application of Code1: the main loop's trigger and tick beside
\* the accept loop, the sender, the receiver and the pipeline of one
\* connection on which the peer sends an authentic one-byte payload.
AppFrames == {[utf8 |-> TRUE, toks |-> Frame(<<1>>, Hmac(Secret, <<1>>))]}

\* a tick of the main loop, as long as the run lasts
AppTick == scan_timer < MaxAppTicks /\ Update

AppNext ==
    \/ CycleProtocol
    \/ AppTick
    \/ Bind
    \/ Accept(1)
    \/ Heartbeat
    \/ HeartbeatSleepEnds
    \/ EnterRecv(1)
    \/ RecvData(1, AppFrames)
    \/ TeleportBit(1)
    \/ Respond(1)

AppSpec == Init /\ [][AppNext]_vars

\* the message log: its writers on one connection and the display reading it
LogFrames ==
    {[utf8 |-> TRUE, toks |-> t] : t \in {<<TokText>>, Frame(<<1>>, Hmac("other key", <<1>>))}}

LogInit ==
    /\ MachineFields("Code1")
    /\ overlap = 0
    /\ ServerFields(MaxLogRecv)
    /\ backend = "aer_simulator"

LogNext ==
    \/ Bind
    \/ Accept(1)
    \/ HeartbeatFails
    \/ EnterRecv(1)
    \/ RecvData(1, LogFrames)
    \/ PlainReply(1)
    \/ PeerClose(1)
    \/ DrawHudBegins
    \/ DrawHudEnds

LogSpec == LogInit /\ [][LogNext]_vars

\* cycle_protocol and update of both variants, driven by the main loop
MachineInit ==
    /\ \E v \in Variants : MachineFields(v)
    /\ ServerFields(0)
    /\ backend = "aer_simulator"

MachineNext ==
    \/ CycleProtocol
    \/ Update

MachineSpec == MachineInit /\ [][MachineNext]_vars

\* scenario 3: the state is made equal to the target before the first
\* trigger (current_state = target_state set on the object after __init__)
ScenarioInit ==
    /\ \E v \in Variants :
          /\ variant = v
          /\ protocol = InitLabel(v)
          /\ status_msg = InitStatus(v)
    /\ access_granted = FALSE
    /\ is_scanning = FALSE
    /\ scan_timer = 0
    /\ entropy_control = EntropyLow
    /\ grounding_level = 0
    /\ overlap = Scale
    /\ fidelity = 0
    /\ clearance_calls = 0
    /\ ServerFields(0)
    /\ backend = "aer_simulator"

ScenarioNext ==
    \/ CycleProtocol
    \/ Update

ScenarioSpec == ScenarioInit /\ [][ScenarioNext]_vars

\* a direct call teleporter.teleport_bytes(raw) by thread 0
TeleportPayloads == {<<>>, <<1>>, <<165>>, <<128, 255>>}

TeleportInit ==
    /\ MachineFields("Code1")
    /\ \E rest \in [Threads -> {IdleThread}] :
       \E raw \in TeleportPayloads :
          thr = [rest EXCEPT ![0] = EnterPipeline(IdleThread, NoFrame, raw)]
    /\ running = TRUE
    /\ backend \in {"None", "aer_simulator"}
    /\ msg_log = <<LogReady, LogWaiting>>
    /\ srv = [pc |-> "bind", conn |-> 0, accepted |-> 0]
    /\ sock = [c \in Conns |-> NoSock]
    /\ recv_budget = 0
    /\ main_pc = "loop"
    /\ last_result = NoRes
    /\ last_call = "init"

TeleportNext == TeleportBit(0)

TeleportSpec == TeleportInit /\ [][TeleportNext]_vars


\* the server's threads under the scheduling the code relies on: every
\* thread that can take a step eventually takes one, and sends to a peer
\* that has closed eventually raise.  The peer and the user are not forced:
\* no connection has to arrive, no data has to be sent, and a recv that was
\* pending when its socket object was closed does not have to return.
ServerThread ==
    \/ Bind
    \/ ServerExit
    \/ Heartbeat
    \/ HeartbeatSleepEnds
    \/ HeartbeatFails
    \/ SenderExit

Listener(c) ==
    \/ ListenerExit(c)
    \/ EnterRecv(c)
    \/ RecvEnds(c)
    \/ TeleportBit(c)
    \/ Respond(c)
    \/ PlainReply(c)

FairSpec ==
    /\ Spec
    /\ WF_vars(ServerThread)
    /\ SF_vars(HeartbeatFails)
    /\ \A c \in Conns : WF_vars(Listener(c))

\* ======================================================== claims
\* a thread is back at the head of its loop after handling a chunk
Handled(c) == thr[c].pc \in {"head", "recv"} /\ thr[c].frame # NoFrame
\* the chunk is MESSAGE:<..>|HMAC:<..> and both texts decode
Decodes(frame) ==
    /\ frame.utf8
    /\ HasSep(frame.toks)
    /\ StartsWithMessage(PayloadPart(frame.toks))
    /\ B64Ok(AfterMessage(PayloadPart(frame.toks)))
    /\ HexOk(HmacPart(frame.toks))
\* the claimed code is HMAC-SHA256(secret, raw payload)
CodeIsRight(frame) ==
    HexDecode(HmacPart(frame.toks)) = Hmac(Secret, B64Decode(AfterMessage(PayloadPart(frame.toks))))
LogHas(line) == \E i \in 1..Len(msg_log) : msg_log[i] = line

\* C1 (as claimed): on an available backend every dict teleport_bit returns has
\* teleported_bit = input_bit and success = TRUE, whatever the two jobs
\* measured, so a finished payload reports as many successes as bits.
C1_TeleportReturnsInput ==
    /\ last_result # NoRes =>
          /\ last_result.teleported_bit = last_result.input_bit
          /\ last_result.success
    /\ (thr[0].pc = "respond" /\ ~thr[0].failed) => thr[0].succ = thr[0].idx

\* C2 (as claimed): for a framed chunk whose payload and code decode, the
\* pipeline is invoked and the reply is a TELEPORT_RESULT line exactly when
\* the claimed code is right; otherwise the reply is AUTH_FAILED and the
\* pipeline is not invoked.
C2_ResultIffCodeRight ==
    \A c \in Conns :
       (Handled(c) /\ Decodes(thr[c].frame)) =>
          /\ (thr[c].invoked /\ thr[c].reply.tok = "TELEPORT_RESULT") <=> CodeIsRight(thr[c].frame)
          /\ ~CodeIsRight(thr[c].frame) =>
                (thr[c].reply.tok = "AUTH_FAILED" /\ ~thr[c].invoked)

\* C2 (amended): for a framed chunk whose payload and code decode, the
\* pipeline is invoked exactly when the claimed code is right, and the reply
\* is then a TELEPORT_RESULT line or, when the pipeline raised,
\* TELEPORT_FAILED; otherwise the reply is AUTH_FAILED and the pipeline is
\* not invoked.  A thread is inside the pipeline only for such a chunk.
C2_PipelineIffCodeRight ==
    \A c \in Conns :
       /\ thr[c].pc \in {"tele", "respond"} =>
             (Decodes(thr[c].frame) /\ CodeIsRight(thr[c].frame) /\ thr[c].invoked)
       /\ (Handled(c) /\ Decodes(thr[c].frame)) =>
             /\ thr[c].invoked <=> CodeIsRight(thr[c].frame)
             /\ CodeIsRight(thr[c].frame) =>
                   /\ thr[c].reply.tok \in {"TELEPORT_RESULT", "TELEPORT_FAILED"}
                   /\ (thr[c].reply.tok = "TELEPORT_FAILED") <=> thr[c].failed
             /\ ~CodeIsRight(thr[c].frame) => thr[c].reply.tok = "AUTH_FAILED"

\* C2 witness: a rightly authenticated one-byte payload answered with a
\* result line over its 8 bits, after a chunk with a wrong code was refused
C2_Witness ==
    /\ Handled(1)
    /\ Decodes(thr[1].frame)
    /\ CodeIsRight(thr[1].frame)
    /\ thr[1].reply.tok = "TELEPORT_RESULT"
    /\ thr[1].reply.total = 8
    /\ LogHas(LogHmacFailed)

\* C3 (as claimed): without a backend no authenticated payload, of any
\* length, is answered with a TELEPORT_RESULT line, only with
\* TELEPORT_FAILED; and a pipeline that raised is answered TELEPORT_FAILED.
C3_NoBackendNoResult ==
    \A c \in Conns :
       /\ backend = "None" =>
             \A i \in 1..Len(sock[c].replies) : sock[c].replies[i].tok # "TELEPORT_RESULT"
       /\ (Handled(c) /\ thr[c].invoked /\ (backend = "None" \/ thr[c].failed)) =>
             thr[c].reply.tok = "TELEPORT_FAILED"

\* C4 (as claimed): the log holds at most 8 entries (outside the plain-text
\* turn's own append-then-evict sequence).
C4_LogAtMostEight ==
    (\A c \in Conns : thr[c].pc # "evict") => Len(msg_log) <= LogKeep

\* C5 (as claimed): once the receiver of a connection has ended on a failed
\* or empty recv while the application runs, the sender of that connection
\* ends as well (its socket is closed and the accept loop goes on) and the
\* loss is logged.
C5_ReceiverLossEndsSender ==
    \A c \in Conns :
       (thr[c].pc = "ended" /\ running) ~>
          (~running \/ (sock[c].state = "closed" /\ srv.conn # c /\ LogHas(LogLost)))

\* a receiver that is handling a chunk, or waits on a socket that is open
Servicing(c) ==
    \/ thr[c].pc \in {"tele", "respond", "evict"}
    \/ thr[c].pc \in {"head", "recv"} /\ sock[c].state = "open"

\* C6 (as claimed): at most one receiver is servicing a connection at any time.
C6_OneReceiver == Cardinality({c \in Conns : Servicing(c)}) <= 1

\* the tasks inside a section that one guard of the log would cover: a
\* receiver between its append and its length check, the display inside its
\* loop over the log
InLogSection ==
    {c \in Conns : thr[c].pc = "evict"} \cup (IF main_pc = "draw_hud" THEN {0} ELSE {})

\* C7 (as claimed): at most one task is inside a section of the log at a time.
C7_LogMutualExclusion == Cardinality(InLogSection) <= 1

\* C8 (as claimed): an accepted trigger moves the label from the converge
\* label to another label or back, resets timer and fidelity, starts a scan.
C8_TriggerToggles ==
    [][(last_call' = "cycle_protocol" /\ ~is_scanning) =>
          /\ (protocol' = ConvergeLabel(variant)) # (protocol = ConvergeLabel(variant))
          /\ scan_timer' = 0
          /\ fidelity' = 0
          /\ is_scanning']_vars

\* C9: a trigger while scanning changes none of the machine's fields.
C9_TriggerWhileScanningNoop ==
    [][(last_call' = "cycle_protocol" /\ is_scanning) =>
          UNCHANGED <<protocol, status_msg, access_granted, is_scanning, grounding_level,
                      scan_timer, fidelity, entropy_control, overlap>>]_vars

\* C9 witness: a trigger arrived in the middle of a scan and the timer stands
C9_Witness ==
    /\ last_call = "cycle_protocol"
    /\ is_scanning
    /\ scan_timer > 0

\* C10: a tick while scanning adds one to the timer; the scan ends on the
\* tick that takes the timer past the bound and on no other, with one
\* clearance check that grants access iff fidelity > 0.95; the timer never
\* passes bound + 1.
C10_ScanEndsPastBound ==
    /\ [](/\ scan_timer <= ScanBound(variant) + 1
          /\ is_scanning => scan_timer <= ScanBound(variant)
          /\ clearance_calls <= 1)
    /\ [][(last_call' = "update" /\ is_scanning) =>
             /\ scan_timer' = scan_timer + 1
             /\ is_scanning' <=> (scan_timer' <= ScanBound(variant))
             /\ is_scanning' => clearance_calls' = clearance_calls
             /\ ~is_scanning' =>
                   /\ scan_timer' = ScanBound(variant) + 1
                   /\ clearance_calls' = clearance_calls + 1
                   /\ access_granted' <=> (fidelity' * 100 > 95 * Scale)]_vars

\* C10 witness: the scan has just ended on tick bound + 1 and was granted
C10_Witness ==
    /\ last_call = "update"
    /\ ~is_scanning
    /\ scan_timer = ScanBound(variant) + 1
    /\ clearance_calls = 1
    /\ access_granted

\* C11 (as claimed): in a converge scan whose state equals the target, the
\* published fidelity reads 1.0 right after the trigger and after every
\* tick, and after 100 ticks the scan is over with access granted.
C11_Scenario3 ==
    (protocol = ConvergeLabel(variant) /\ overlap = Scale
        /\ last_call \in {"cycle_protocol", "update"}) =>
       /\ fidelity = Scale
       /\ (last_call = "update" /\ scan_timer = 100) =>
             (~is_scanning /\ access_granted)

\* what one reply can be: a result line, a fixed token, a FIDELITY line
ReplyTokens ==
    {"TELEPORT_RESULT", "AUTH_FAILED", "BAD_PAYLOAD", "MALFORMED", "TELEPORT_FAILED",
     "FIDELITY"}
\* the replies that answer a chunk of a given classification
RepliesTo(cls) ==
    CASE cls = "Plain" -> {"FIDELITY"}
      [] cls = "Malformed" -> {"MALFORMED"}
      [] cls = "BadPayload" -> {"BAD_PAYLOAD"}
      [] cls = "AuthFailed" -> {"AUTH_FAILED"}
      [] OTHER -> {"TELEPORT_RESULT", "TELEPORT_FAILED"}
\* chunks connection 1 has read so far in CodecSpec
CodecReceived == MaxCodecRecv - recv_budget
\* the receiver is between reading a chunk and replying to it
Replying(c) == thr[c].pc \in {"tele", "respond", "evict"}

C13_ShutdownEndsEveryRole ==
    (~running) ~> (srv.pc = "done" /\ \A c \in Conns : thr[c].pc \in {"off", "ended"})

\* C14 (as claimed): a turn of the loop of teleport_bytes begins with a look
\* at the flag, so no turn begins, and no bit is teleported, from a state
\* in which the flag is cleared (a bit whose turn began before the flag was
\* cleared is the one in progress).
C14_NoBitAfterShutdown ==
    [][\A c \in Conns :
          (~running /\ thr[c].pc = "tele") => thr'[c].idx = thr[c].idx]_vars

\* the connection the sender serves is up and the application runs
LinkUp ==
    /\ running
    /\ srv.conn = 1
    /\ sock[1].state = "open"
    /\ sock[1].peer # "closed"

\* C15: at the head of the send loop of an open connection the heartbeat
\* send can be taken whatever the receiver is doing; while the connection
\* stays up heartbeat lines keep being sent; and while the peer has sent
\* nothing, no reply has been sent on the connection.
C15_HeartbeatsRegardless ==
    /\ []((LinkUp /\ srv.pc = "send") => ENABLED Heartbeat)
    /\ [](recv_budget = MaxRecv => sock[1].replies = <<>>)
    /\ (<>[]LinkUp) => []<><<Heartbeat>>_vars

\* C15 witness: a heartbeat line was sent while the receiver was inside
\* the bit-by-bit simulation of a payload, and the peer has since been
\* sent the result line
C15_Witness ==
    /\ LinkUp
    /\ sock[1].busy_beat
    /\ sock[1].beats >= 1
    /\ Len(sock[1].replies) = 1
    /\ sock[1].replies[1].tok = "TELEPORT_RESULT"
    /\ sock[1].replies[1].total = 8

\* the chunk holds "|HMAC:" and the text before the first one does not
\* begin with "MESSAGE:"
NoMessagePrefix(frame) ==
    /\ frame.utf8
    /\ HasSep(frame.toks)
    /\ \/ PayloadPart(frame.toks) = <<>>
       \/ PayloadPart(frame.toks)[1] # TokMessage

\* C16: a chunk with "|HMAC:" and without the "MESSAGE:" prefix is answered
\* MALFORMED, whatever follows the prefix position and whatever the code
\* is; the pipeline is not invoked for it.
C16_MalformedReply ==
    \A c \in Conns :
       (Handled(c) /\ NoMessagePrefix(thr[c].frame)) =>
          /\ thr[c].reply = Token("MALFORMED")
          /\ ~thr[c].invoked
          /\ LogHas(LogMalformed)

\* C16 witness: "MESSAGE:" is there but not first, the payload is good
\* base64 and the code is right; the only reply is MALFORMED
C16_Witness ==
    /\ Handled(1)
    /\ thr[1].frame.toks =
          <<TokText, TokMessage, B64Text(<<1>>), TokSep, HexText(Hmac(Secret, <<1>>))>>
    /\ sock[1].replies = <<Token("MALFORMED")>>
    /\ ~LogHas(LogAuthOk)

\* the chunk is framed: "|HMAC:" is there and "MESSAGE:" comes first
Framed(frame) ==
    /\ frame.utf8
    /\ HasSep(frame.toks)
    /\ PayloadPart(frame.toks) # <<>>
    /\ PayloadPart(frame.toks)[1] = TokMessage
\* a text that is neither empty nor one text of the given form
NotOne(text, form) == text # <<>> /\ (Len(text) # 1 \/ text[1].t # form)

\* C17: a framed chunk whose payload is not base64 or whose code is not
\* hex is answered BAD_PAYLOAD (not AUTH_FAILED, not a result line) and the
\* pipeline is not invoked for it.
C17_BadPayloadReply ==
    \A c \in Conns :
       (/\ Handled(c)
        /\ Framed(thr[c].frame)
        /\ \/ NotOne(Tail(PayloadPart(thr[c].frame.toks)), "b64")
           \/ NotOne(HmacPart(thr[c].frame.toks), "hex")) =>
          /\ thr[c].reply = Token("BAD_PAYLOAD")
          /\ ~thr[c].invoked
          /\ LogHas(LogDecodeFailed)

\* C17 witness: the payload is good base64 and the code is not hex; the
\* only reply is BAD_PAYLOAD
C17_Witness ==
    /\ Handled(1)
    /\ thr[1].frame.toks = <<TokMessage, B64Text(<<1>>), TokSep, TokText>>
    /\ sock[1].replies = <<Token("BAD_PAYLOAD")>>
    /\ ~LogHas(LogHmacFailed)

\* the data does not hold "|HMAC:" (or is not text at all)
Unframed(frame) == ~frame.utf8 \/ \A i \in 1..Len(frame.toks) : frame.toks[i] # TokSep

\* C18: data without "|HMAC:" is appended to the log as a REMOTE line and
\* answered with one FIDELITY line that carries the fidelity of the moment
\* of the reply; no token is sent for it and the pipeline is not invoked.
C18_PlainTextReply ==
    /\ [](\A c \in Conns :
             (Handled(c) /\ Unframed(thr[c].frame)) =>
                (thr[c].reply.tok = "FIDELITY" /\ ~thr[c].invoked))
    /\ [][\A c \in Conns :
             (thr[c].pc = "recv" /\ thr'[c].pc # "recv" /\ Unframed(thr'[c].frame)) =>
                /\ thr'[c].pc = "evict"
                /\ msg_log' = Append(msg_log, LogRemote)
                /\ sock'[c].replies = sock[c].replies]_vars
    /\ [][\A c \in Conns :
             (thr[c].pc = "evict" /\ thr'[c].pc # "evict") =>
                LET line == [tok |-> "FIDELITY", succ |-> 0, total |-> 0, val |-> fidelity]
                IN /\ thr'[c].reply = line
                   /\ sock'[c].replies \in {sock[c].replies, Append(sock[c].replies, line)}
                   /\ sock[c].state = "open" =>
                         sock'[c].replies = Append(sock[c].replies, line)]_vars

\* C18 witness: data that begins with "MESSAGE:" and has no "|HMAC:" was
\* answered, during a scan that had brought the fidelity up, with a
\* FIDELITY line of that value and nothing else
C18_Witness ==
    /\ Handled(1)
    /\ thr[1].frame.toks = <<TokMessage, B64Text(<<1>>)>>
    /\ is_scanning
    /\ fidelity > Scale \div 2
    /\ sock[1].replies = <<[tok |-> "FIDELITY", succ |-> 0, total |-> 0, val |-> fidelity]>>
    /\ LogHas(LogRemote)


\* C19: for every payload P the frame MESSAGE:<base64(P)>|HMAC:<hex(HMAC(S,P))>
\* is decoded as Authenticated and exactly the bytes P are handed to the
\* pipeline; the same frame with any different code of the same form is
\* answered AUTH_FAILED and the pipeline is not invoked.
\* every payload of up to four bytes over three byte values: the encoding,
\* the decoding and the comparison of codes as pure functions
TripBytes == {0, 105, 255}
LongPayloads == UNION {[1..n -> TripBytes] : n \in 0..4}
LongRoundTrip ==
    \A raw \in LongPayloads :
        /\ Classify(Framing(raw, Hmac(Secret, raw)).frame) = "Authenticated"
        /\ RawOf(Framing(raw, Hmac(Secret, raw)).frame) = raw
        /\ \A i \in 1..(Len(raw) + 1) :
              Classify(Framing(raw, FlipBit(Hmac(Secret, raw), i)).frame) = "AuthFailed"
C19_CodecRoundTrip ==
    /\ LongRoundTrip
    /\ \A c \in Conns :
        /\ \A sent \in TripAuthentic :
              thr[c].frame = sent.frame
                 => /\ thr[c].invoked
                    /\ thr[c].raw = sent.raw
                    /\ thr[c].reply.tok \in {"", "TELEPORT_RESULT", "TELEPORT_FAILED"}
        /\ \A sent \in TripForged :
              thr[c].frame = sent.frame
                 => /\ ~thr[c].invoked
                    /\ thr[c].reply = Token("AUTH_FAILED")

\* C19 witness: the framed two-byte payload "hi" (base64 with padding) went
\* through the pipeline as exactly those two bytes.
C19_Witness ==
    /\ thr[1].frame.toks = Frame(<<104, 105>>, Hmac(Secret, <<104, 105>>))
    /\ thr[1].raw = <<104, 105>>
    /\ thr[1].reply.tok = "TELEPORT_RESULT"
    /\ thr[1].reply.total = 16
    /\ sock[1].replies = <<thr[1].reply>>

\* C20 (as amended): while no bit teleportation raises, the pipeline runs
\* one teleportation per bit of the payload: it returns only after
\* 8*len(payload) of them, the reply reports total = 8*len(payload) and
\* 0 <= success <= total, and a bit that came out different from its input
\* is counted and followed by the next bit.  (A teleportation that raises
\* ends the pipeline without a result.)
C20_AllBitsCounted ==
    /\ [](\A c \in Conns :
            thr[c].invoked
               => /\ thr[c].idx <= 8 * Len(thr[c].raw)
                  /\ thr[c].succ \in 0..thr[c].idx
                  /\ Len(thr[c].inputs) = thr[c].idx
                  /\ (thr[c].pc = "respond" /\ ~thr[c].failed)
                        => thr[c].idx = 8 * Len(thr[c].raw)
                  /\ thr[c].reply.tok = "TELEPORT_RESULT"
                        => /\ thr[c].reply.total = 8 * Len(thr[c].raw)
                           /\ thr[c].reply.succ = thr[c].succ
                           /\ thr[c].reply.succ \in 0..thr[c].reply.total)
    /\ [][\A c \in Conns :
            (thr[c].pc = "tele" /\ thr'[c].idx = thr[c].idx + 1
               /\ thr'[c].succ = thr[c].succ /\ thr'[c].idx < 8 * Len(thr[c].raw))
               => thr'[c].pc = "tele"]_vars

\* C20 witness: both bytes of the payload "hi" were teleported, every bit
\* came out different from its input, and the reply counts 0 of 16.
C20_Witness ==
    /\ thr[1].raw = <<104, 105>>
    /\ thr[1].reply = ResultLine(0, 16)
    /\ Len(thr[1].inputs) = 16
    /\ sock[1].replies = <<ResultLine(0, 16)>>

\* C20 as stated: every payload handed to the pipeline is answered with a
\* result whose total is 8*len(payload).
C20_EveryPayloadReported ==
    \A c \in Conns :
        (thr[c].invoked /\ thr[c].reply # NoReply)
           => /\ thr[c].reply.tok = "TELEPORT_RESULT"
              /\ thr[c].reply.total = 8 * Len(thr[c].raw)

\* C21: a TELEPORT_RESULT or TELEPORT_FAILED reply is sent by the receiver
\* only when the code of the request it is handling equals the code of the
\* payload and the pipeline is through with that payload (every bit
\* teleported, or a teleportation raised); nothing is sent while the bits are
\* simulated; each reply is appended after the replies already sent, and the
\* next request is read only when the receiver is back in recv.
C21_ReplyAfterProcessing ==
    [][\A c \in Conns :
         /\ sock'[c].replies # sock[c].replies
               => /\ thr[c].pc # "tele"
                  /\ \E line \in {thr'[c].reply} :
                        /\ sock'[c].replies = Append(sock[c].replies, line)
                        /\ line.tok \in {"TELEPORT_RESULT", "TELEPORT_FAILED"}
                              => /\ thr[c].pc = "respond"
                                 /\ thr[c].invoked
                                 /\ thr'[c].frame = thr[c].frame
                                 /\ Hmac(Secret, thr[c].raw) = HexDecode(HmacPart(thr[c].frame.toks))
                                 /\ thr[c].raw = RawOf(thr[c].frame)
                                 /\ IF line.tok = "TELEPORT_RESULT"
                                    THEN thr[c].idx = 8 * Len(thr[c].raw) /\ ~thr[c].failed
                                    ELSE thr[c].failed
         /\ thr'[c].frame # thr[c].frame => thr[c].pc = "recv"
      ]_vars

\* C21 witness: two requests were read on one connection, the one-byte
\* payload first; its result (8 bits) is the first reply and the result of
\* the empty payload the second.
C21_Witness ==
    /\ Len(sock[1].replies) = 2
    /\ sock[1].replies[1].tok = "TELEPORT_RESULT"
    /\ sock[1].replies[1].total = 8
    /\ sock[1].replies[2] = ResultLine(0, 0)
    /\ thr[1].frame.toks = Frame(<<>>, Hmac(Secret, <<>>))
    /\ thr[1].reply = ResultLine(0, 0)

\* the tokens that report a rejected or failed request
ErrorTokens == {"MALFORMED", "BAD_PAYLOAD", "AUTH_FAILED", "TELEPORT_FAILED"}
\* the last thing receiver c did was to answer with one of them
AnsweredError(c) == thr[c].pc \in {"head", "recv"} /\ thr[c].reply.tok \in ErrorTokens

\* C22: the step in which a receiver answers MALFORMED, BAD_PAYLOAD,
\* AUTH_FAILED or TELEPORT_FAILED takes it back to the head of its read loop
\* and changes neither the connection, the sender nor the shutdown flag;
\* from there it can go into recv again, the sender can send its next line,
\* and an authentic frame read on that connection afterwards is handed to
\* the pipeline and answered with a result line or TELEPORT_FAILED.
C22_ErrorsEndOnlyTheExchange ==
    /\ [][\A c \in Conns :
            (thr'[c] # thr[c] /\ thr[c].pc \in {"recv", "respond"}
               /\ thr'[c].reply.tok \in ErrorTokens)
               => /\ thr'[c].pc = "head"
                  /\ sock'[c].state = sock[c].state
                  /\ sock'[c].peer = sock[c].peer
                  /\ srv' = srv
                  /\ running' = running]_vars
    /\ [](\A c \in Conns :
            (AnsweredError(c) /\ running /\ sock[c].state = "open")
               => /\ thr[c].pc = "head" => ENABLED EnterRecv(c)
                  /\ (srv.pc = "send" /\ srv.conn = c) => ENABLED Heartbeat
                  /\ (thr[c].pc = "recv" /\ sock[c].peer = "open" /\ recv_budget > 0)
                        => ENABLED RecvData(c, {[utf8 |-> TRUE,
                                                 toks |-> Frame(<<1>>, Hmac(Secret, <<1>>))]}))
    /\ [](\A c \in Conns :
            ((\E i \in 1..(Len(sock[c].replies) - 1) : sock[c].replies[i].tok \in ErrorTokens)
               /\ thr[c].pc \in {"head", "recv"}
               /\ thr[c].frame.toks = Frame(<<1>>, Hmac(Secret, <<1>>)))
               => /\ thr[c].invoked
                  /\ thr[c].reply.tok \in {"TELEPORT_RESULT", "TELEPORT_FAILED"}
                  /\ sock[c].replies[Len(sock[c].replies)] = thr[c].reply)

\* C22 witness: on one connection an AUTH_FAILED was answered first, then an
\* authentic frame was read, teleported and answered with its result, while
\* the sender went on with its lines and the connection stayed open.
C22_Witness ==
    /\ Len(sock[1].replies) = 2
    /\ sock[1].replies[1] = Token("AUTH_FAILED")
    /\ sock[1].replies[2].tok = "TELEPORT_RESULT"
    /\ sock[1].replies[2].total = 8
    /\ thr[1].pc = "head"
    /\ sock[1].state = "open"
    /\ sock[1].busy_beat
    /\ srv.pc \in {"send", "sleep"}

\* C23: a step that changes the quantum state, the fidelity or a status
\* field (label, status message, access flag, grounding level, scan timer,
\* entropy control, scanning flag) is a call of cycle_protocol or update and
\* changes nothing of the server; a step of the accept loop, the sender,
\* the receiver or the pipeline changes none of those fields.
C23_ServerNeverWritesMachine ==
    [][/\ smvars' # smvars => (srvvars' = srvvars /\ last_call' \in {"cycle_protocol", "update"})
       /\ srvvars' # srvvars => smvars' = smvars]_vars

\* C23 witness: the scan is at its fifth tick or later with the fidelity
\* written by the tick, while on the connection a heartbeat was sent and a
\* payload was teleported and answered.
C23_Witness ==
    /\ is_scanning
    /\ scan_timer >= 5
    /\ fidelity > 0
    /\ sock[1].beats > 0
    /\ thr[1].reply.tok = "TELEPORT_RESULT"
    /\ thr[1].idx = 8

\* C24: a failed bind appends the port-busy line to the log and ends the
\* server thread; once that line is in the log the server thread is done,
\* no connection was or will be accepted and no receiver or sender exists,
\* while cycle_protocol and update can still be called by the main loop.
C24_BindFailureEndsServerOnly ==
    /\ [][(srv.pc = "bind" /\ srv'.pc \notin {"bind", "accept"})
             => (srv'.pc = "done" /\ msg_log' = Append(msg_log, LogBusy)
                 /\ smvars' = smvars /\ running' = running)]_vars
    /\ [](LogHas(LogBusy)
            => /\ srv.pc = "done"
               /\ srv.accepted = 0
               /\ \A c \in Conns : sock[c] = NoSock /\ thr[c].pc = "off"
               /\ running => (ENABLED CycleProtocol /\ ENABLED Update))

\* C24 witness: the bind failed and, with the server thread done, a trigger
\* was accepted and the scan has reached its fifth tick, where the tick
\* wrote the fidelity.
C24_Witness ==
    /\ LogHas(LogBusy)
    /\ srv.pc = "done"
    /\ is_scanning
    /\ scan_timer = 5
    /\ fidelity > 0
    /\ last_call = "update"

\* the eight bits of a byte written out, most significant first
ByteBits(b) ==
    <<(b \div 128) % 2, (b \div 64) % 2, (b \div 32) % 2, (b \div 16) % 2,
      (b \div 8) % 2, (b \div 4) % 2, (b \div 2) % 2, b % 2>>
\* the bits of a payload: byte after byte
RECURSIVE PayloadBits(_)
PayloadBits(raw) == IF raw = <<>> THEN <<>> ELSE ByteBits(Head(raw)) \o PayloadBits(Tail(raw))

\* C25: the input bits of the results teleport_bytes has collected so far
\* are the first bits of the payload, bytes in payload order and each byte
\* most significant bit first.
C25_BitsInOrder ==
    \A t \in Threads :
        thr[t].pc \in {"tele", "respond"}
           => /\ thr[t].idx <= Len(PayloadBits(thr[t].raw))
              /\ thr[t].inputs = SubSeq(PayloadBits(thr[t].raw), 1, thr[t].idx)

\* C25 witness: the payload 0x80 0xFF was teleported to its end, as the
\* bits 1000 0000 1111 1111.
C25_Witness ==
    /\ thr[0].raw = <<128, 255>>
    /\ thr[0].pc = "respond"
    /\ ~thr[0].failed
    /\ thr[0].inputs = <<1, 0, 0, 0, 0, 0, 0, 0, 1, 1, 1, 1, 1, 1, 1, 1>>

\* two authentic frames of the one-byte payload delivered by a single recv
TwoFramesInOneRead ==
    [utf8 |-> TRUE,
     toks |-> Frame(<<1>>, Hmac(Secret, <<1>>)) \o Frame(<<1>>, Hmac(Secret, <<1>>))]

\* C26 (as claimed): when two authentic frames arrive in a single read, each
\* is decoded as one message: the pipeline is invoked and the chunk is
\* answered with result lines, never with a rejection.
C26_FramesSurviveTransport ==
    \A c \in Conns :
        (Handled(c) /\ thr[c].frame = TwoFramesInOneRead)
           => /\ thr[c].invoked
              /\ thr[c].reply.tok = "TELEPORT_RESULT"

\* C27: under the converge label, every fifth tick of a scan mixes the
\* state toward the target with the fraction timer/bound, which is at most
\* 1; the tick on which the timer equals the bound leaves the state at the
\* target with fidelity 1; and a scan that has ended under the converge
\* label has granted access, whatever state it started from.
C27_ConvergeAlwaysGrants ==
    /\ [](protocol = ConvergeLabel(variant)
            => /\ (is_scanning /\ scan_timer = ScanBound(variant))
                     => (overlap = Scale /\ fidelity = Scale)
               /\ ~is_scanning
                     => /\ access_granted
                        /\ grounding_level = 2
                        /\ fidelity = Scale
                        /\ scan_timer = ScanBound(variant) + 1)
    /\ [][(last_call' = "update" /\ is_scanning /\ protocol = ConvergeLabel(variant)
              /\ scan_timer' % 5 = 0)
             => /\ scan_timer' <= ScanBound(variant)
                /\ overlap' = ((ScanBound(variant) - scan_timer') * overlap
                                   + scan_timer' * Scale) \div ScanBound(variant)
                /\ overlap' <= Scale]_vars

\* C27 witness: a converge scan of the horizon variant has ended on tick 121
\* with access granted.
C27_Witness ==
    /\ variant = "Code3"
    /\ protocol = ConvergeLabel("Code3")
    /\ ~is_scanning
    /\ scan_timer = ScanBound3 + 1
    /\ access_granted
    /\ status_msg = "HORIZON REACHED. COLLAPSED."

C29_IdleTickChangesNothing ==
    [][(last_call' = "update" /\ ~is_scanning)
         => /\ UNCHANGED <<protocol, status_msg, access_granted, grounding_level, scan_timer,
                           fidelity, entropy_control, overlap>>
            /\ ~is_scanning']_vars

\* C29 witness: update was called on a machine that has not been triggered
\* yet (a timer of 0 after a tick can only be an idle tick): every field is
\* as __init__ left it.
C29_Witness ==
    /\ last_call = "update"
    /\ ~is_scanning
    /\ scan_timer = 0
    /\ protocol = InitLabel(variant)
    /\ status_msg = InitStatus(variant)
    /\ ~access_granted
    /\ grounding_level = 0
    /\ fidelity = 0
    /\ entropy_control = EntropyLow

\* C30: under a label other than the converge label access is never
\* granted: the fidelity is never above 0.95 (in the horizon variant it stays
\* at the 0 written by the trigger), and a scan that has ended under such a
\* label was denied.
C30_NonConvergeNeverGrants ==
    protocol # ConvergeLabel(variant)
       => /\ ~access_granted
          /\ grounding_level = 0
          /\ fidelity * 100 <= 95 * Scale
          /\ variant = "Code3" => fidelity = 0
          /\ (~is_scanning /\ clearance_calls = 1)
                => /\ scan_timer = ScanBound(variant) + 1
                   /\ entropy_control = EntropyLow

\* C30 witness: a search scan of Code1 has ended denied although its last
\* sample, on tick 100, had the largest fidelity a product state reaches
\* (0.7071).
C30_Witness ==
    /\ variant = "Code1"
    /\ protocol = ElseLabel("Code1")
    /\ ~is_scanning
    /\ scan_timer = ScanBound1 + 1
    /\ clearance_calls = 1
    /\ fidelity = ISqrt(Scale \div 2)
    /\ ~access_granted

====
